---- MODULE Spec2Model ----
(***************************************************************************)
(* Model of btc_turtle_monitor.py: a poll loop that fetches a price,       *)
(* appends it to a capped history, evaluates a channel-breakout rule       *)
(* (generate_signal), debounces the result against last_signal, applies    *)
(* it to the binary position and calls the notifier.                       *)
(*                                                                         *)
(* Prices are floats in the program; the program only appends, evicts and  *)
(* compares them (>, <, max, min), so they are modelled as small positive  *)
(* integers.  Python's None is "None" for a signal and NoPrice for a price.*)
(***************************************************************************)
EXTENDS Integers, Sequences, FiniteSets

VARIABLES
    entry_lookback,  \* ENTRY_LOOKBACK, module configuration (N)
    exit_lookback,   \* EXIT_LOOKBACK, module configuration (M)
    min_history,     \* MIN_HISTORY, computed once at module load
    h_max,           \* the history cap, the literal 5000 of main_loop
    prices,          \* global prices: the history, oldest first
    position,        \* global position: 0 = flat, 1 = long
    last_signal,     \* global last_signal: "None", "BUY" or "SELL"
    price,           \* main_loop's local price (NoPrice when the fetch failed)
    signal,          \* main_loop's local signal
    pc,              \* where main_loop is within the current iteration
    fetched,         \* history variable: every successfully fetched price, in order
    calls,           \* history variable: the notifier's calls, <<signal, price>> each
    notify_calls,    \* history variable: notifier calls made in this iteration
    notify_ok,       \* history variable: outcome of the last notifier call
    accepted,        \* history variable: a signal was accepted in this iteration
    evaluated        \* history variable: generate_signal ran in this iteration

config == <<entry_lookback, exit_lookback, min_history, h_max>>
globals == <<prices, position, last_signal>>
ghosts == <<fetched, calls, notify_calls, notify_ok, accepted, evaluated>>
vars == <<config, globals, price, signal, pc, ghosts>>

----------------------------------------------------------------------------
(* Bounds of the model.  The program's lookbacks are 20 and 10 and its cap *)
(* is 5000; the checked configuration keeps their shape (exit window       *)
(* shorter than entry window, cap above MIN_HISTORY) at a size TLC can     *)
(* enumerate.                                                              *)

\* entry window length of the checked configuration
SmallEntry == 3

\* exit window length of the checked configuration
SmallExit == 2

\* the checked cap is the minimal history plus this many samples
CapSlack == 1

\* at most this many fetches succeed, enough to pass the cap and evict
MaxFetches == 7

\* prices are 1..MaxPrice
MaxPrice == 3

Prices == 1..MaxPrice

\* fetch_price's None
NoPrice == 0

Signals == {"BUY", "SELL"}

\* every history of at most n samples
Histories(n) == UNION {[1..k -> Prices] : k \in 0..n}

PyMax2(a, b) == IF a > b THEN a ELSE b

PyMin2(a, b) == IF a < b THEN a ELSE b

----------------------------------------------------------------------------
(* Python list primitives, as the interpreter computes them.               *)

\* a slice bound, 0-based, clamped into 0..len as list slicing does
SliceIndex(i, len) == IF i < 0 THEN PyMax2(i + len, 0) ELSE PyMin2(i, len)

\* s[lo:hi]
PySlice(s, lo, hi) ==
    LET a == SliceIndex(lo, Len(s))
        b == SliceIndex(hi, Len(s))
    IN  [k \in 1..PyMax2(b - a, 0) |-> s[a + k]]

\* max(s) of a non-empty list
PyMax(s) == CHOOSE m \in {s[i] : i \in 1..Len(s)} : \A i \in 1..Len(s) : s[i] <= m

\* min(s) of a non-empty list
PyMin(s) == CHOOSE m \in {s[i] : i \in 1..Len(s)} : \A i \in 1..Len(s) : s[i] >= m

----------------------------------------------------------------------------
(* generate_signal                                                         *)

insufficient_history_off_by_one(p) == Len(p) < min_history - 1

\* line 52: the guard that returns None
insufficient_history(p) == Len(p) < min_history

entry_window_includes_close(p) == PySlice(p, 0 - entry_lookback, Len(p))

\* line 59: prices[-ENTRY_LOOKBACK-1:-1]
entry_window(p) == PySlice(p, 0 - entry_lookback - 1, -1)

exit_window_includes_close(p) == PySlice(p, 0 - exit_lookback, Len(p))

\* line 61: prices[-EXIT_LOOKBACK-1:-1]
exit_window(p) == PySlice(p, 0 - exit_lookback - 1, -1)

breakout_on_tie(close, recent_high) == close >= recent_high

\* line 66: close > recent_high
breakout(close, recent_high) == close > recent_high

breakdown_on_tie(close, recent_low) == close <= recent_low

\* line 70: close < recent_low
breakdown(close, recent_low) == close < recent_low

generate_signal_ungated(p, pos) ==
    IF insufficient_history(p) THEN "None"
    ELSE IF breakout(p[Len(p)], PyMax(entry_window(p))) THEN "BUY"
    ELSE IF breakdown(p[Len(p)], PyMin(exit_window(p))) THEN "SELL"
    ELSE "None"

\* The value generate_signal returns for history p and position pos, or
\* "RAISE" where the interpreter raises (prices[-1] of an empty list, max or
\* min of an empty slice).
generate_signal(p, pos) ==
    IF insufficient_history(p) THEN "None"
    ELSE IF Len(p) = 0 THEN "RAISE"
    ELSE IF entry_window(p) = <<>> \/ exit_window(p) = <<>> THEN "RAISE"
    ELSE LET close == p[Len(p)]
             recent_high == PyMax(entry_window(p))
             recent_low == PyMin(exit_window(p))
         IN  IF pos = 0 /\ breakout(close, recent_high) THEN "BUY"
             ELSE IF pos = 1 /\ breakdown(close, recent_low) THEN "SELL"
             ELSE "None"

----------------------------------------------------------------------------
(* main_loop                                                               *)

history_append_drop_newest(h, p) ==
    IF Len(h) + 1 > h_max THEN h ELSE Append(h, p)

history_append_truncates(h, p) ==
    IF Len(h) + 1 > h_max THEN <<p>> ELSE Append(h, p)

\* lines 117-120: prices.append(price); if len(prices) > 5000: prices.pop(0)
history_append(h, p) ==
    LET a == Append(h, p)
    IN  IF Len(a) > h_max THEN Tail(a) ELSE a

is_new_signal_no_debounce(sig, last) == sig # "None"

\* line 125: signal is not None and signal != last_signal
is_new_signal(sig, last) == sig # "None" /\ sig # last

next_position_always_long(sig, pos) == 1

next_position_ignores_sell(sig, pos) == IF sig = "BUY" THEN 1 ELSE pos

\* lines 129-132: the position after an accepted signal
next_position(sig, pos) ==
    IF sig = "BUY" THEN 1
    ELSE IF sig = "SELL" THEN 0
    ELSE pos

fetch_succeeds_evaluates_first(p) ==
    /\ pc = "fetch"
    /\ price' = p
    /\ fetched' = Append(fetched, p)
    /\ pc' = "evaluate"
    /\ UNCHANGED <<config, globals, signal, calls, notify_calls, notify_ok,
                   accepted, evaluated>>

\* lines 112-113, 36-40: fetch_price returns p, main_loop goes on to append it
fetch_succeeds(p) ==
    /\ pc = "fetch"
    /\ price' = p
    /\ fetched' = Append(fetched, p)
    /\ pc' = "append"
    /\ UNCHANGED <<config, globals, signal, calls, notify_calls, notify_ok,
                   accepted, evaluated>>

\* lines 112, 36-40: the fetch succeeds with price p (at most MaxFetches times)
FetchOk(p) ==
    /\ Len(fetched) < MaxFetches
    /\ fetch_succeeds(p)

FetchFail_resets_debounce ==
    /\ pc = "fetch"
    /\ price' = NoPrice
    /\ last_signal' = "None"
    /\ pc' = "sleep"
    /\ UNCHANGED <<config, prices, position, signal, ghosts>>

\* lines 112-115, 41-43: the fetch fails, price is None, the loop sleeps
FetchFail ==
    /\ pc = "fetch"
    /\ price' = NoPrice
    /\ pc' = "sleep"
    /\ UNCHANGED <<config, globals, signal, ghosts>>

\* lines 117-120
AppendPrice ==
    /\ pc = "append"
    /\ prices' = history_append(prices, price)
    /\ pc' = "evaluate"
    /\ UNCHANGED <<config, position, last_signal, price, signal, ghosts>>

Evaluate_writes_position ==
    /\ pc = "evaluate"
    /\ LET r == generate_signal(prices, position)
       IN  IF r = "RAISE"
           THEN pc' = "crashed" /\ UNCHANGED <<signal, position>>
           ELSE pc' = "apply" /\ signal' = r /\ position' = next_position(r, position)
    /\ evaluated' = TRUE
    /\ UNCHANGED <<config, prices, last_signal, price, fetched, calls,
                   notify_calls, notify_ok, accepted>>

\* line 124: signal = generate_signal(); an exception leaves main_loop
Evaluate ==
    /\ pc = "evaluate"
    /\ LET r == generate_signal(prices, position)
       IN  IF r = "RAISE"
           THEN pc' = "crashed" /\ UNCHANGED signal
           ELSE pc' = "apply" /\ signal' = r
    /\ evaluated' = TRUE
    /\ UNCHANGED <<config, globals, price, fetched, calls, notify_calls,
                   notify_ok, accepted>>

ApplySignal_keeps_last_signal ==
    /\ pc = "apply"
    /\ is_new_signal(signal, last_signal)
    /\ position' = next_position(signal, position)
    /\ accepted' = TRUE
    /\ pc' = "notify"
    /\ UNCHANGED <<config, prices, last_signal, price, signal, fetched, calls,
                   notify_calls, notify_ok, evaluated>>

\* lines 125-138: the signal is new: last_signal and position are written
ApplySignal ==
    /\ pc = "apply"
    /\ is_new_signal(signal, last_signal)
    /\ last_signal' = signal
    /\ position' = next_position(signal, position)
    /\ accepted' = TRUE
    /\ pc' = "notify"
    /\ UNCHANGED <<config, prices, price, signal, fetched, calls, notify_calls,
                   notify_ok, evaluated>>

SkipSignal_notifies_anyway ==
    /\ pc = "apply"
    /\ ~is_new_signal(signal, last_signal)
    /\ pc' = "notify"
    /\ UNCHANGED <<config, globals, price, signal, ghosts>>

\* line 125 false: the body of the if is skipped
SkipSignal ==
    /\ pc = "apply"
    /\ ~is_new_signal(signal, last_signal)
    /\ pc' = "sleep"
    /\ UNCHANGED <<config, globals, price, signal, ghosts>>

NotifyFail_rolls_back ==
    /\ pc = "notify"
    /\ calls' = Append(calls, <<signal, price>>)
    /\ notify_calls' = notify_calls + 1
    /\ notify_ok' = FALSE
    /\ position' = 1 - position
    /\ last_signal' = "None"
    /\ pc' = "sleep"
    /\ UNCHANGED <<config, prices, price, signal, fetched, accepted, evaluated>>

\* lines 141, 88-98: send_signal_notification(signal, price), subprocess succeeds
NotifyOk ==
    /\ pc = "notify"
    /\ calls' = Append(calls, <<signal, price>>)
    /\ notify_calls' = notify_calls + 1
    /\ notify_ok' = TRUE
    /\ pc' = "sleep"
    /\ UNCHANGED <<config, globals, price, signal, fetched, accepted, evaluated>>

\* lines 141, 88-100: the subprocess fails, the exception is caught and printed
NotifyFail ==
    /\ pc = "notify"
    /\ calls' = Append(calls, <<signal, price>>)
    /\ notify_calls' = notify_calls + 1
    /\ notify_ok' = FALSE
    /\ pc' = "sleep"
    /\ UNCHANGED <<config, globals, price, signal, fetched, accepted, evaluated>>

\* lines 114, 143 and 111: time.sleep, then the next iteration begins
Sleep ==
    /\ pc = "sleep"
    /\ pc' = "fetch"
    /\ notify_calls' = 0
    /\ accepted' = FALSE
    /\ evaluated' = FALSE
    /\ UNCHANGED <<config, globals, price, signal, fetched, calls, notify_ok>>

\* lines 11-14, 118: the checked configuration
SmallConfig ==
    /\ entry_lookback = SmallEntry
    /\ exit_lookback = SmallExit
    /\ min_history = PyMax2(entry_lookback, exit_lookback) + 1
    /\ h_max = min_history + CapSlack

\* lines 17-19: the module's globals at load, main_loop about to fetch
Fresh ==
    /\ prices = <<>>
    /\ position = 0
    /\ last_signal = "None"
    /\ price = NoPrice
    /\ signal = "None"
    /\ pc = "fetch"
    /\ fetched = <<>>
    /\ calls = <<>>
    /\ notify_calls = 0
    /\ notify_ok = TRUE
    /\ accepted = FALSE
    /\ evaluated = FALSE

Init == SmallConfig /\ Fresh

Next ==
    \/ \E p \in Prices : FetchOk(p)
    \/ FetchFail
    \/ AppendPrice
    \/ Evaluate
    \/ ApplySignal
    \/ SkipSignal
    \/ NotifyOk
    \/ NotifyFail
    \/ Sleep

Spec == Init /\ [][Next]_vars

----------------------------------------------------------------------------
(* The rest of one iteration, from line 124 or from line 125, entered with *)
(* any values of the module's globals and of the local signal: the inputs  *)
(* of generate_signal and of the test on line 125 drawn from bounded sets, *)
(* whether or not main_loop itself produces them.                          *)

AnyInit ==
    /\ SmallConfig
    /\ prices \in Histories(h_max)
    /\ position \in {0, 1}
    /\ last_signal \in Signals \cup {"None"}
    /\ pc \in {"evaluate", "apply"}
    /\ signal \in (IF pc = "apply" THEN Signals \cup {"None"} ELSE {"None"})
    /\ price = IF prices = <<>> THEN 1 ELSE prices[Len(prices)]
    /\ fetched = prices
    /\ calls = <<>>
    /\ notify_calls = 0
    /\ notify_ok = TRUE
    /\ accepted = FALSE
    /\ evaluated = FALSE

AnyNext ==
    \/ Evaluate
    \/ ApplySignal
    \/ SkipSignal
    \/ NotifyOk
    \/ NotifyFail
    \/ Sleep

AnySpec == AnyInit /\ [][AnyNext]_vars

----------------------------------------------------------------------------
(* main_loop without lines 118-120: the history is never truncated, so it  *)
(* is the whole log of fetched prices.                                     *)

RECURSIVE unbounded_run(_)

\* position, last_signal, the notifier's calls and the ticks (ordinals of
\* the successful fetches) that accepted a signal, after the iterations
\* that fetched log
unbounded_run(log) ==
    IF log = <<>>
    THEN [position |-> 0, last_signal |-> "None", calls |-> <<>>, ticks |-> <<>>]
    ELSE LET before == unbounded_run(SubSeq(log, 1, Len(log) - 1))
             sig == generate_signal(log, before.position)
         IN  IF is_new_signal(sig, before.last_signal)
             THEN [position |-> next_position(sig, before.position),
                   last_signal |-> sig,
                   calls |-> Append(before.calls, <<sig, log[Len(log)]>>),
                   ticks |-> Append(before.ticks, Len(log))]
             ELSE before

----------------------------------------------------------------------------
(* The program's own configuration, fed the price sequence of the          *)
(* specification's two scenarios, every fetch succeeding.                  *)

\* line 11
ENTRY_LOOKBACK == 20

\* line 12
EXIT_LOOKBACK == 10

\* line 118
HISTORY_CAP == 5000

\* lines 11-14, 118: the configuration as the program sets it
ProgramConfig ==
    /\ entry_lookback = ENTRY_LOOKBACK
    /\ exit_lookback = EXIT_LOOKBACK
    /\ min_history = PyMax2(entry_lookback, exit_lookback) + 1
    /\ h_max = HISTORY_CAP

\* 20 samples of 10, then 11, then 10 samples of 11, then 9
ScenarioPrices == [i \in 1..32 |-> IF i <= 20 THEN 10 ELSE IF i <= 31 THEN 11 ELSE 9]

\* the next fetch returns the next price of the scenario
ScenarioFetch ==
    /\ Len(fetched) < Len(ScenarioPrices)
    /\ fetch_succeeds(ScenarioPrices[Len(fetched) + 1])

ScenarioInit == ProgramConfig /\ Fresh

ScenarioNext ==
    \/ ScenarioFetch
    \/ AppendPrice
    \/ Evaluate
    \/ ApplySignal
    \/ SkipSignal
    \/ NotifyOk
    \/ NotifyFail
    \/ Sleep

ScenarioSpec == ScenarioInit /\ [][ScenarioNext]_vars

----------------------------------------------------------------------------
(* Properties                                                              *)

\* the newest sample
Close == prices[Len(prices)]

\* the positions (1-based) of the n samples immediately preceding the newest
Preceding(n) == (Len(prices) - n)..(Len(prices) - 1)

\* an accepted signal is being applied in this step
Applying == pc = "apply" /\ pc' = "notify"

\* C1: position starts FLAT and changes only FLAT -> LONG in a step that
\* accepts BUY and LONG -> FLAT in a step that accepts SELL; BUY is never
\* applied while LONG and SELL never while FLAT.
C1_PositionTransitions ==
    /\ position = 0
    /\ [][/\ position' # position => Applying
          /\ Applying =>
                \/ signal = "BUY" /\ last_signal' = "BUY" /\ position = 0 /\ position' = 1
                \/ signal = "SELL" /\ last_signal' = "SELL" /\ position = 1 /\ position' = 0
         ]_vars

C1_Witness == pc = "sleep" /\ accepted /\ position = 0 /\ last_signal = "SELL"

\* C2: when generate_signal has run on a history whose newest sample is
\* strictly above each of the N samples before it and position is FLAT, the
\* result is BUY; when the newest sample equals the largest of those N
\* samples the result is None.
C2_BreakoutIsBuy ==
    (pc = "apply" /\ evaluated /\ Len(prices) >= entry_lookback + 1) =>
        /\ (position = 0 /\ \A i \in Preceding(entry_lookback) : Close > prices[i])
              => signal = "BUY"
        /\ ( /\ \A i \in Preceding(entry_lookback) : Close >= prices[i]
             /\ \E i \in Preceding(entry_lookback) : Close = prices[i] )
              => signal = "None"

C2_Witness ==
    /\ pc = "apply" /\ evaluated /\ position = 0 /\ signal = "BUY"
    /\ Len(prices) = h_max
    /\ \E i \in Preceding(entry_lookback) : prices[i] # prices[Len(prices) - 1]

\* C3: when generate_signal has run on a history whose newest sample is
\* strictly below each of the M samples before it and position is LONG, the
\* result is SELL; when the newest sample equals the smallest of those M
\* samples the result is None.
C3_BreakdownIsSell ==
    (pc = "apply" /\ evaluated /\ Len(prices) >= min_history) =>
        /\ (position = 1 /\ \A i \in Preceding(exit_lookback) : Close < prices[i])
              => signal = "SELL"
        /\ ( /\ \A i \in Preceding(exit_lookback) : Close <= prices[i]
             /\ \E i \in Preceding(exit_lookback) : Close = prices[i] )
              => signal = "None"

C3_Witness ==
    /\ pc = "apply" /\ evaluated /\ position = 1 /\ signal = "SELL"
    /\ Len(prices) = h_max
    /\ \E i \in Preceding(entry_lookback) : prices[i] < Close

\* C4: while the history is shorter than max(N, M) + 1, generate_signal
\* returns None for either position and does not raise, no signal has been
\* accepted, position is FLAT and the notifier has not been called.
C4_InsufficientHistory ==
    /\ pc # "crashed"
    /\ Len(prices) < PyMax2(entry_lookback, exit_lookback) + 1 =>
          /\ \A pos \in {0, 1} : generate_signal(prices, pos) = "None"
          /\ (pc = "apply" => signal = "None")
          /\ position = 0
          /\ last_signal = "None"
          /\ ~accepted
          /\ calls = <<>>

C4_Witness ==
    /\ pc = "apply" /\ evaluated
    /\ Len(prices) = PyMax2(entry_lookback, exit_lookback)
    /\ \A i \in 1..(Len(prices) - 1) : Close > prices[i]

\* the prices appended so far: every fetched price, but the one just fetched
\* and not yet appended
Appended == IF pc = "append" THEN SubSeq(fetched, 1, Len(fetched) - 1) ELSE fetched

\* the last n elements of s
LastN(s, n) == SubSeq(s, Len(s) - n + 1, Len(s))

\* C5: the history never holds more than the cap, and is the most recent
\* min(k, cap) fetched prices in arrival order, k being the number appended.
C5_BoundedFifo ==
    /\ Len(prices) <= h_max
    /\ prices = LastN(Appended, PyMin2(Len(Appended), h_max))

C5_Witness == pc = "evaluate" /\ Len(fetched) = h_max + 2 /\ prices[1] # prices[2]

\* C6: a step in which the fetch fails changes neither the history nor the
\* position nor last_signal, and goes to the sleep; when the loop sleeps
\* after a failed fetch, no signal was evaluated or accepted and the notifier
\* was not called in that iteration; the sleep leads to the next fetch.
C6_FetchFailureFrame ==
    /\ [](pc = "sleep" /\ price = NoPrice =>
              ~evaluated /\ ~accepted /\ notify_calls = 0)
    /\ [][/\ (pc = "fetch" /\ price' = NoPrice) =>
                pc' = "sleep" /\ UNCHANGED <<prices, position, last_signal, calls>>
          /\ pc = "sleep" =>
                pc' = "fetch" /\ UNCHANGED <<prices, position, last_signal, calls>>
         ]_vars

C6_Witness ==
    /\ pc = "sleep" /\ price = NoPrice
    /\ position = 1 /\ last_signal = "BUY" /\ Len(prices) > min_history

\* C7: a BUY or SELL candidate is accepted exactly when it differs from
\* last_signal; on acceptance last_signal becomes the candidate, on
\* rejection last_signal, position and the notifier's calls are unchanged
\* and the notifier is not reached.
C7_Debounce ==
    [][(pc = "apply" /\ signal \in Signals) =>
          IF signal # last_signal
          THEN pc' = "notify" /\ last_signal' = signal
          ELSE pc' = "sleep" /\ UNCHANGED <<last_signal, position, calls, notify_calls>>
      ]_vars

C7_Witness ==
    /\ pc = "sleep" /\ evaluated /\ ~accepted /\ notify_calls = 0
    /\ signal = "BUY" /\ last_signal = "BUY"

\* C8: in an iteration the notifier is called once if a signal was accepted
\* and not at all otherwise, and its arguments are the accepted signal and
\* the price fetched in that iteration.
C8_NotifyOncePerAccepted ==
    /\ notify_calls = (IF pc = "sleep" /\ accepted THEN 1 ELSE 0)
    /\ accepted =>
          /\ signal \in Signals /\ last_signal = signal
          /\ price # NoPrice
          /\ price = fetched[Len(fetched)]
          /\ price = Close
    /\ notify_calls = 1 => calls[Len(calls)] = <<signal, price>>

C8_Witness == pc = "sleep" /\ notify_calls = 1 /\ Len(calls) = 2

\* C9: the notifier's step, failed or not, changes neither the history nor
\* position nor last_signal and goes to the sleep; after an accepted signal
\* whose notification failed, last_signal is that signal and position is
\* the one it leads to.
C9_NotifyFailureKeepsTransition ==
    /\ [](pc = "sleep" /\ accepted /\ ~notify_ok =>
              /\ last_signal = signal
              /\ position = (IF signal = "BUY" THEN 1 ELSE 0))
    /\ [][pc = "notify" =>
              pc' = "sleep" /\ UNCHANGED <<prices, position, last_signal>>
         ]_vars

C9_Witness ==
    pc = "sleep" /\ accepted /\ ~notify_ok /\ position = 0 /\ last_signal = "SELL"

Decided(k) ==
    \/ Len(fetched) > k
    \/ Len(fetched) = k /\ pc \in {"notify", "sleep", "fetch"}

\* the iteration of the k-th fetch has returned from the notifier
Notified(k) ==
    \/ Len(fetched) > k
    \/ Len(fetched) = k /\ pc \in {"sleep", "fetch"}

\* C11: with N = 20 and M = 10, on 20 samples of 10, then 11, then 10
\* samples of 11, then 9, exactly two signals are accepted: BUY on the 11 of
\* tick 21 (position becomes LONG) and SELL on the 9 of tick 32 (position
\* becomes FLAT); no other tick accepts a signal.
C11_Scenario ==
    /\ pc # "crashed"
    /\ accepted => Len(fetched) \in {21, 32}
    /\ (Len(fetched) = 21 /\ pc \in {"notify", "sleep"}) =>
          accepted /\ signal = "BUY" /\ price = 11
    /\ (Len(fetched) = 32 /\ pc \in {"notify", "sleep"}) =>
          accepted /\ signal = "SELL" /\ price = 9
    /\ position = (IF Decided(21) /\ ~Decided(32) THEN 1 ELSE 0)
    /\ last_signal = (IF Decided(32) THEN "SELL"
                      ELSE IF Decided(21) THEN "BUY" ELSE "None")
    /\ calls = (IF Notified(21) THEN << <<"BUY", 11>> >> ELSE <<>>)
                \o (IF Notified(32) THEN << <<"SELL", 9>> >> ELSE <<>>)

C11_Witness ==
    /\ Len(fetched) = 32 /\ pc = "fetch"
    /\ position = 0 /\ last_signal = "SELL" /\ Len(calls) = 2

\* C12: the step that evaluates generate_signal changes neither the
\* history nor position nor last_signal, whatever it returns.
C12_EvaluateIsPure ==
    [][pc = "evaluate" => UNCHANGED <<prices, position, last_signal>>]_vars

C12_Witness ==
    /\ pc = "apply" /\ evaluated /\ signal = "SELL"
    /\ position = 1 /\ last_signal = "None"

\* C13: position is LONG exactly when last_signal is BUY (so FLAT exactly
\* when it is None or SELL), and a step changes position exactly when it
\* changes last_signal.
C13_PositionInSync ==
    /\ []((position = 1) <=> (last_signal = "BUY"))
    /\ []((position = 0) <=> (last_signal \in {"None", "SELL"}))
    /\ [][(position' # position) <=> (last_signal' # last_signal)]_vars

C13_Witness ==
    pc = "fetch" /\ position = 0 /\ last_signal = "SELL" /\ Len(fetched) = MaxFetches

\* the signal the i-th accepted signal must be: BUY, SELL, BUY, ...
Alternating(i) == IF i % 2 = 1 THEN "BUY" ELSE "SELL"

\* C14: the signals passed to the notifier, in order, are BUY, SELL, BUY,
\* ...: the first is BUY and no two consecutive ones are equal; an accepted
\* signal not yet notified continues the alternation.
C14_SignalsAlternate ==
    /\ \A i \in 1..Len(calls) : calls[i][1] = Alternating(i)
    /\ pc = "notify" => signal = Alternating(Len(calls) + 1)

C14_Witness == pc = "sleep" /\ Len(calls) = 3 /\ notify_calls = 1

\* C15: a BUY or SELL returned by generate_signal always differs from
\* last_signal, so the test of line 125 never rejects it: every non-None
\* result is accepted.
C15_DebounceNeverSuppresses ==
    /\ []((pc = "apply" /\ signal # "None") => signal # last_signal)
    /\ [][(pc = "apply" /\ signal # "None") => Applying]_vars

C15_Witness ==
    pc = "apply" /\ evaluated /\ signal = "BUY" /\ last_signal = "SELL"

\* C16: when the history passes the guard of generate_signal, the entry
\* window is exactly the N samples before the newest one and the exit
\* window exactly the M samples before it; a signal is never decided with
\* fewer than N + 1 or M + 1 samples.
C16_FullWindows ==
    /\ Len(prices) >= min_history =>
          /\ Len(entry_window(prices)) = entry_lookback
          /\ Len(exit_window(prices)) = exit_lookback
          /\ entry_window(prices) =
                SubSeq(prices, Len(prices) - entry_lookback, Len(prices) - 1)
          /\ exit_window(prices) =
                SubSeq(prices, Len(prices) - exit_lookback, Len(prices) - 1)
    /\ (pc = "apply" /\ signal # "None") =>
          Len(prices) >= entry_lookback + 1 /\ Len(prices) >= exit_lookback + 1

C16_Witness ==
    /\ pc = "apply" /\ evaluated /\ signal = "BUY"
    /\ Len(prices) = min_history /\ Len(fetched) = min_history

\* C17: when generate_signal is about to run or has run in an iteration,
\* the price fetched in that iteration is already the newest sample of the
\* history and the cap is enforced; when the notifier is about to be called
\* or has been called, last_signal and position already hold the accepted
\* signal and the position it leads to.
C17_StepOrder ==
    /\ (pc = "evaluate" \/ evaluated) =>
          /\ price # NoPrice
          /\ Len(prices) = PyMin2(Len(fetched), h_max)
          /\ prices[Len(prices)] = price
          /\ fetched[Len(fetched)] = price
    /\ pc = "append" => ~evaluated /\ ~accepted /\ notify_calls = 0
    /\ (pc = "notify" \/ notify_calls > 0) =>
          /\ evaluated /\ accepted
          /\ last_signal = signal
          /\ position = (IF signal = "BUY" THEN 1 ELSE 0)

C17_Witness == pc = "notify" /\ Len(fetched) = h_max + 1 /\ signal = "SELL"

\* C18: the length of the history never decreases; the append step makes
\* it one longer below the cap and leaves it equal at the cap, every other
\* step (a failed fetch included) leaves it equal; once it has reached
\* max(N, M) + 1 it stays there, so the guard of generate_signal never
\* holds again.
C18_LengthMonotone ==
    [][/\ Len(prices') >= Len(prices)
       /\ Len(prices') =
             (IF pc = "append" /\ Len(prices) < h_max
              THEN Len(prices) + 1 ELSE Len(prices))
       /\ Len(prices) >= PyMax2(entry_lookback, exit_lookback) + 1 =>
             ~insufficient_history(prices')
      ]_vars

C18_Witness ==
    pc = "evaluate" /\ Len(fetched) = h_max + 1 /\ Len(prices) = h_max

\* C19: between iterations, position, last_signal and the notifier's calls
\* are those of the loop that never truncates its history, run on the same
\* fetched prices; and an iteration accepts a signal exactly when that loop
\* accepts one at the same tick.
C19_CapDoesNotChangeSignals ==
    pc \in {"sleep", "fetch"} =>
        LET u == unbounded_run(fetched)
        IN  /\ position = u.position
            /\ last_signal = u.last_signal
            /\ calls = u.calls
            /\ (pc = "sleep" /\ price # NoPrice) =>
                  (accepted <=>
                     (u.ticks # <<>> /\ u.ticks[Len(u.ticks)] = Len(fetched)))

C19_Witness ==
    /\ pc = "fetch" /\ Len(fetched) = MaxFetches /\ Len(prices) = h_max
    /\ Len(calls) = 3

====
